---- MODULE Spec2Model ----
(***************************************************************************)
(* State-machine model of utility/timeseries.py: the DataSequence ring     *)
(* buffer and the DataTimeSeries built on it (sample ring, the tdelta /    *)
(* time_elapsed / timestamp rings, the rebinding of add, the raw and       *)
(* filtered arrays, the EWMA weights, the built-in filters and the         *)
(* pre-filter and post-filter hooks).                                      *)
(*                                                                         *)
(* Encoding.  A NumPy array of N slots is a function 0..N-1 -> element.    *)
(* An element is a tuple of D numbers; a scalar (D = 1) is a 1-tuple.      *)
(* Numbers are integers: floats are modelled on their integer values,      *)
(* on which float64 is exact and float32 rounds to 24 significant bits.    *)
(* None is the empty tuple, a supplied optional value v is <<v>>.          *)
(* nan is a number of its own that no other value of the model equals.    *)
(* A call that can raise returns a record with field err.                  *)
(***************************************************************************)
EXTENDS Integers, Sequences, FiniteSets, TLC

\* ---------------------------------------------------------------- bounds
MaxN == 3          \* capacities 1..MaxN
MaxVal == 1        \* sample components 0..MaxVal
AddSlack == 2      \* add() calls made past the largest capacity

MaxAdds == MaxN + AddSlack
MaxTimedAdds == MaxN + 1

\* Significant bits of numpy dtype 'f' (float32), the default dtype of a
\* DataSequence.
F32Bits == 24

None == <<>>
Some(v) == <<v>>

Min(a, b) == IF a < b THEN a ELSE b
Max(a, b) == IF a > b THEN a ELSE b
Abs(x) == IF x < 0 THEN -x ELSE x

\* ----------------------------------------------------------- NumPy pieces
RECURSIVE BitLen(_)
BitLen(m) == IF m = 0 THEN 0 ELSE 1 + BitLen(m \div 2)

\* Conversion of an integer-valued float to float32: round to nearest, ties
\* to even, at F32Bits significant bits.
AsFloat32(x) ==
    LET m == Abs(x)
        sh == BitLen(m) - F32Bits
    IN  IF sh <= 0 THEN x
        ELSE LET ulp == 2^sh
                 q == m \div ulp
                 r == m % ulp
                 up == (2 * r > ulp) \/ (2 * r = ulp /\ q % 2 = 1)
                 mag == (IF up THEN q + 1 ELSE q) * ulp
             IN  IF x < 0 THEN -mag ELSE mag

\* Conversion of a number to the array's dtype on assignment: 'f' is float32,
\* float is float64 (exact on the integers used here).
Cast(dtype, x) == IF dtype = "f" THEN AsFloat32(x) ELSE x

\* Whether a value of `len` components can be assigned to a slot of d
\* components: same length, or one component (broadcast).
Fits(data, d) == Len(data) = d \/ Len(data) = 1

\* The slot contents after the assignment slot = data.
Broadcast(dtype, data, d) ==
    [k \in 1..d |-> Cast(dtype, IF Len(data) = 1 THEN data[1] ELSE data[k])]

\* arr[i] for an integer i on an array of n slots: negative i counts from the
\* end, anything outside -n..n-1 raises IndexError.
NpItem(arr, n, i) ==
    IF i >= 0 /\ i < n THEN [err |-> "ok", val |-> arr[i]]
    ELSE IF i < 0 /\ i >= -n THEN [err |-> "ok", val |-> arr[i + n]]
    ELSE [err |-> "IndexError"]

\* The slot an integer index i of arr[i] = v writes (-1: IndexError).
NpSlot(n, i) ==
    IF i >= 0 /\ i < n THEN i ELSE IF i < 0 /\ i >= -n THEN i + n ELSE -1

\* The slots, in order, that arr[start:stop:-1] selects on n slots; stop is
\* None when omitted (arr[start::-1]).
NpSliceRev(n, start, stop) ==
    LET s0 == IF start < 0 THEN start + n ELSE start
        s == IF s0 < 0 THEN -1 ELSE IF s0 >= n THEN n - 1 ELSE s0
        e0 == IF stop = None THEN -1
              ELSE IF stop[1] < 0 THEN stop[1] + n ELSE stop[1]
        e == IF e0 < 0 THEN -1 ELSE IF e0 >= n THEN n - 1 ELSE e0
    IN  [k \in 1..Max(0, s - e) |-> s - (k - 1)]

\* A bound k of result[:k] or result[k:] on a result of len slots.
NpBound(len, k) == IF k < 0 THEN Max(0, len + k) ELSE Min(k, len)

\* ------------------------------------------------------------- fractions
\* The EWMA weight, its powers and their sum are fractions <<num, den>> in
\* lowest terms with den > 0; the weights used are dyadic, so float32 and
\* float64 hold them exactly.
RECURSIVE Gcd(_, _)
Gcd(a, b) == IF b = 0 THEN a ELSE Gcd(b, a % b)

Rat(num, den) ==
    LET sg == IF den < 0 THEN -1 ELSE 1
        g == Gcd(Abs(num), Abs(den))
    IN  IF num = 0 THEN <<0, 1>> ELSE <<(sg * num) \div g, (sg * den) \div g>>

RatAdd(x, y) == Rat(x[1] * y[2] + y[1] * x[2], x[2] * y[2])
RatMul(x, y) == Rat(x[1] * y[1], x[2] * y[2])

\* x ** k for an integer k >= 0; x ** 0 is 1.0, also for x = 0.0.
RECURSIVE RatPow(_, _)
RatPow(x, k) == IF k = 0 THEN <<1, 1>> ELSE RatMul(x, RatPow(x, k - 1))

\* The sum of f[i] for i in 0..(k - 1).
RECURSIVE RatSum(_, _)
RatSum(f, k) == IF k = 0 THEN <<0, 1>> ELSE RatAdd(RatSum(f, k - 1), f[k - 1])

\* The quotient num / den of two fractions as a sample component: exact when
\* it is an integer, which it is for the samples of FilterSamples; otherwise
\* the nearest integer.
Quotient(num, den) ==
    LET q == Rat(num[1] * den[2], num[2] * den[1])
    IN  IF q[1] >= 0 THEN (2 * q[1] + q[2]) \div (2 * q[2])
        ELSE -((2 * (-q[1]) + q[2]) \div (2 * q[2]))

\* ----------------------------------------------------------------- state
VARIABLES
    nsamples,       \* DataSequence.__nsamples of the series and its rings
    ndim,           \* DataSequence.__ndim of the series
    auto_filter,    \* constructor argument auto_filter
    head,           \* DataSequence.__head of the series
    added,          \* DataSequence.__added of the series
    raw_data,       \* DataTimeSeries.__raw_data
    filtered_data,  \* DataTimeSeries.__filtered_data (None: not filtered)
    data_series,    \* which array self.data_series is: "raw" or "filtered"
    tdelta,         \* DataSequence(nsamples, 1)
    time_elapsed,   \* DataSequence(nsamples, 1, dtype=float)
    timestamp,      \* DataSequence(nsamples, 1, dtype=float)
    add,            \* the method self.add is bound to
    filter_alg,     \* constructor argument filter_alg ("None" for None)
    ewma_weight,    \* constructor argument ewma_weight
    init_err,       \* how __init__ ended: "ok" or the exception raised
    filter,         \* the method self.__filter is bound to, or "unbound"
    pre_filter,     \* self.pre_filter: None or a hook
    post_filter,    \* self.post_filter: None or a hook
    weight,         \* DataTimeSeries.__weight: None or <<fraction>>
    exp_weights,    \* DataTimeSeries.__exp_weights
    denom,          \* DataTimeSeries.__denom
    hist,           \* history: the samples add() stored, newest first, at most nsamples
    nadds,          \* history: number of add() calls made
    overridden,     \* history: whether some add() was given a time argument
    first_timestamp, \* history: the timestamp stored for the first sample, or None
    last_call       \* history: the last call, its arguments and its outcome

vars == <<nsamples, ndim, auto_filter, head, added, raw_data, filtered_data,
          data_series, tdelta, time_elapsed, timestamp, add, filter_alg,
          ewma_weight, init_err, filter, pre_filter, post_filter, weight,
          exp_weights, denom, hist, nadds, overridden, first_timestamp,
          last_call>>

config == <<nsamples, ndim, auto_filter, filter_alg, ewma_weight, init_err,
            filter, pre_filter, post_filter>>
rings == <<tdelta, time_elapsed, timestamp>>
weights == <<weight, exp_weights, denom>>

\* ---------------------------------------------------------- DataSequence
\* Mutant: the storage is not zero-initialized.
Zeros_as_ones(samples, dimensions) ==
    [i \in 0..(samples - 1) |-> [k \in 1..dimensions |-> 1]]

\* np.zeros(shape, dtype) for shape (samples,) or (samples, dimensions).
Zeros(samples, dimensions) ==
    [i \in 0..(samples - 1) |-> [k \in 1..dimensions |-> 0]]

\* DataSequence.__init__: the fields of a new ring.
DataSequence(samples, dimensions, dtype) ==
    [head |-> 0, added |-> 0, dtype |-> dtype,
     data_series |-> Zeros(samples, dimensions)]

_increment_head(h, n) == IF h + 1 >= n THEN 0 ELSE h + 1

\* Mutant: added is not capped at the capacity.
_increment_added_uncapped(a, n) == a + 1

_increment_added(a, n) == IF a < n THEN a + 1 ELSE a

\* Mutant: the relative index walks forward from head instead of backward.
_get_real_index_forward(h, n, from_head) ==
    LET result == h + from_head
    IN  IF result >= n THEN result - n ELSE result

_get_real_index(h, n, from_head) ==
    LET result == h - from_head
    IN  IF result < 0 THEN result + n ELSE result

\* Mutant: the sample is written before head moves, to the old head slot.
DataSequence_add_at_old_head(s, n, d, data) ==
    LET a == _increment_added(s.added, n)
        h == _increment_head(s.head, n)
    IN  IF Fits(data, d)
        THEN [err |-> "ok",
              seq |-> [s EXCEPT !.added = a, !.head = h,
                                !.data_series[s.head] = Broadcast(s.dtype, data, d)]]
        ELSE [err |-> "ValueError",
              seq |-> [s EXCEPT !.added = a, !.head = h]]

\* DataSequence.add on ring s of n slots of d components: the counters move
\* first, then the assignment data_series[head] = data raises ValueError when
\* data does not fit the slot.
DataSequence_add(s, n, d, data) ==
    LET a == _increment_added(s.added, n)
        h == _increment_head(s.head, n)
    IN  IF Fits(data, d)
        THEN [err |-> "ok",
              seq |-> [s EXCEPT !.added = a, !.head = h,
                                !.data_series[h] = Broadcast(s.dtype, data, d)]]
        ELSE [err |-> "ValueError",
              seq |-> [s EXCEPT !.added = a, !.head = h]]

\* DataSequence.__getitem__, integer key.
__getitem__(h, arr, n, key) == NpItem(arr, n, _get_real_index(h, n, key))

\* Whether an assignment of rhs slots to a slice of lhs slots is accepted.
Assignable(lhs, rhs) == rhs = lhs \/ rhs = 1

\* Mutant: the wrap branch is taken only when end_ind > start_ind.
__extract_range_strict(h, arr, n, start, stop) ==
    LET len == IF stop > n THEN n ELSE stop - start
        start_ind == _get_real_index(h, n, start)
        end_ind == _get_real_index(h, n, stop)
    IN  IF len < 0 THEN [err |-> "ValueError"]
        ELSE IF end_ind > start_ind
        THEN LET n1 == start_ind + 1
                 src1 == NpSliceRev(n, start_ind, None)
                 src2 == NpSliceRev(n, n, Some(end_ind))
                 lo == NpBound(len, n1)
             IN  IF ~Assignable(lo, Len(src1)) \/ ~Assignable(len - lo, Len(src2))
                 THEN [err |-> "ValueError"]
                 ELSE [err |-> "ok",
                       val |-> [k \in 1..len |->
                                 IF k <= lo
                                 THEN arr[src1[IF Len(src1) = 1 THEN 1 ELSE k]]
                                 ELSE arr[src2[IF Len(src2) = 1 THEN 1 ELSE k - lo]]]]
        ELSE LET src == NpSliceRev(n, start_ind, Some(end_ind))
             IN  IF ~Assignable(len, Len(src))
                 THEN [err |-> "ValueError"]
                 ELSE [err |-> "ok",
                       val |-> [k \in 1..len |->
                                 arr[src[IF Len(src) = 1 THEN 1 ELSE k]]]]

\* DataSequence.__extract_range with step = 1: the array built for [start:stop].
__extract_range(h, arr, n, start, stop) ==
    LET len == IF stop > n THEN n ELSE stop - start
        start_ind == _get_real_index(h, n, start)
        end_ind == _get_real_index(h, n, stop)
    IN  IF len < 0 THEN [err |-> "ValueError"]
        ELSE IF end_ind >= start_ind
        THEN LET n1 == start_ind + 1
                 src1 == NpSliceRev(n, start_ind, None)
                 src2 == NpSliceRev(n, n, Some(end_ind))
                 lo == NpBound(len, n1)
             IN  IF ~Assignable(lo, Len(src1)) \/ ~Assignable(len - lo, Len(src2))
                 THEN [err |-> "ValueError"]
                 ELSE [err |-> "ok",
                       val |-> [k \in 1..len |->
                                 IF k <= lo
                                 THEN arr[src1[IF Len(src1) = 1 THEN 1 ELSE k]]
                                 ELSE arr[src2[IF Len(src2) = 1 THEN 1 ELSE k - lo]]]]
        ELSE LET src == NpSliceRev(n, start_ind, Some(end_ind))
             IN  IF ~Assignable(len, Len(src))
                 THEN [err |-> "ValueError"]
                 ELSE [err |-> "ok",
                       val |-> [k \in 1..len |->
                                 arr[src[IF Len(src) = 1 THEN 1 ELSE k]]]]

\* DataSequence.__getitem__, slice key [start:stop]; start and stop are None
\* when omitted.
getslice(h, arr, n, start, stop) ==
    __extract_range(h, arr, n,
                    IF start = None THEN 0 ELSE start[1],
                    IF stop = None THEN n ELSE stop[1])

\* -------------------------------------------------------- DataTimeSeries
\* The array self.data_series refers to.
Active == IF data_series = "raw" THEN raw_data ELSE filtered_data

\* series[key] and series[start:stop]
Get(key) == __getitem__(head, Active, nsamples, key)
GetRange(start, stop) == getslice(head, Active, nsamples, start, stop)

\* ring[key] of one of the time rings, as a number.
RingGet(s, key) == __getitem__(s.head, s.data_series, nsamples, key)
RingVal(s, key) == RingGet(s, key).val[1]

Take(s, n) == SubSeq(s, 1, Min(Len(s), n))

NoKw == [timestamp |-> None, tdelta |-> None, time_elapsed |-> None]

\* The dimensions of the series that are built.
Dims == {1, 2}

\* DataTimeSeries.__init__(nsamples, ndim, 'f', auto_filter, filter_alg,
\* pre_filter, post_filter, ewma_weight).  filter_alg='sma' raises
\* AttributeError at self.__filter['sma'] = self.sma, before the hooks are
\* bound; a filter_alg that matches no branch leaves __filter unbound.  On a
\* series that is not auto-filtered neither __filter nor the hooks are set.
__init__(n, d, af, alg, pre, post, w) ==
    /\ nsamples = n
    /\ ndim = d
    /\ auto_filter = af
    /\ filter_alg = alg
    /\ ewma_weight = w
    /\ head = 0
    /\ added = 0
    /\ exp_weights = [i \in 0..(n - 1) |-> <<0, 1>>]
    /\ weight = w
    /\ denom = <<0, 1>>
    /\ tdelta = DataSequence(n, 1, "f")
    /\ time_elapsed = DataSequence(n, 1, "float")
    /\ timestamp = DataSequence(n, 1, "float")
    /\ add = "__initial_time_add"
    /\ raw_data = Zeros(n, d)
    /\ filtered_data = IF af THEN Zeros(n, d) ELSE None
    /\ data_series = IF af THEN "filtered" ELSE "raw"
    /\ filter = IF af /\ alg = "ewma" THEN "ewma"
                ELSE IF af /\ alg \in {"lowpass", "None"} THEN "__pass_filter"
                ELSE "unbound"
    /\ init_err = IF af /\ alg = "sma" THEN "AttributeError" ELSE "ok"
    /\ pre_filter = IF af /\ alg # "sma" THEN pre ELSE None
    /\ post_filter = IF af /\ alg # "sma" THEN post ELSE None
    /\ hist = <<>>
    /\ nadds = 0
    /\ overridden = FALSE
    /\ first_timestamp = None
    /\ last_call = [op |-> "init"]

\* A series built with filter_alg=None, no hooks and no ewma_weight.
Init ==
    \E n \in 1..MaxN, d \in Dims, af \in BOOLEAN :
        __init__(n, d, af, "None", None, None, None)

\* The sum of f[i] for i in 1..k.
RECURSIVE SumTo(_, _)
SumTo(f, k) == IF k = 0 THEN 0 ELSE SumTo(f, k - 1) + f[k]

\* DataTimeSeries.__compute_exponential_weights with self.added = a: the new
\* __weight, __exp_weights and __denom.
__compute_exponential_weights(a) ==
    LET w == IF weight = None THEN Rat(a - 1, a + 1) ELSE weight[1]
        ew == [i \in 0..(nsamples - 1) |->
                  IF i < a THEN RatPow(w, i) ELSE exp_weights[i]]
    IN  [weight |-> Some(w), exp_weights |-> ew, denom |-> RatSum(ew, a)]

\* DataTimeSeries.ewma with head h, added a, on the array arr that
\* data_series is, with weights ew and normalizer dn (a division by a zero
\* normalizer yields nan).
ewma(h, a, arr, ew, dn) ==
    IF dn = <<0, 1>> THEN [err |-> "nan"]
    ELSE [err |-> "ok",
          val |-> [k \in 1..ndim |->
                    Quotient(RatSum([i \in 0..(a - 1) |->
                                       RatMul(ew[i],
                                              <<__getitem__(h, arr, nsamples, i).val[k], 1>>)],
                                    a),
                             dn)]]

\* DataTimeSeries.sma with head h, added a, on the array arr that data_series
\* is: 0 on an empty series, else sum(self[:]) / added.
sma(h, a, arr) ==
    IF a = 0 THEN <<0>>
    ELSE LET all == getslice(h, arr, nsamples, None, None).val
         IN  [k \in 1..ndim |->
                Quotient(<<SumTo([j \in 1..Len(all) |-> all[j][k]], Len(all)), 1>>,
                         <<a, 1>>)]

\* Mutant: the pass filter returns the sample before the newest.
__pass_filter_previous(h, arr) == __getitem__(h, arr, nsamples, 1).val

\* DataTimeSeries.__pass_filter on the array arr: self[0].
__pass_filter(h, arr) == __getitem__(h, arr, nsamples, 0).val

\* nan, held as a number that no sample, clock reading or filter result of
\* the model is.
NaN == 0 - 2^(F32Bits + 2)

\* What is assigned to the filtered slot for a hook called with head h while
\* data_series is arr and the timestamp ring is ts: "twice" doubles
\* series[0], "wider" returns ndim + 1 components, "stamp" returns
\* series.timestamp[0], "nothing" returns None, which the assignment to a
\* float array stores as nan.
Hook(hook, h, arr, ts) ==
    IF hook = Some("twice")
    THEN [k \in 1..ndim |-> 2 * __pass_filter(h, arr)[k]]
    ELSE IF hook = Some("stamp") THEN <<RingVal(ts, 0)>>
    ELSE IF hook = Some("nothing") THEN <<NaN>>
    ELSE [k \in 1..(ndim + 1) |-> 0]

\* self.__filter() with head h and added a on the raw array, with weights ew
\* and normalizer dn.
Primary(h, a, raw, ew, dn) ==
    IF filter = "ewma" THEN ewma(h, a, raw, ew, dn).val ELSE __pass_filter(h, raw)

\* Mutant: the pre-filter hook runs after the built-in filter and its result
\* stays in the slot.
__filter_data_pre_last(h, a, raw, ew, dn, ts) ==
    LET p == Primary(h, a, raw, ew, dn)
        f1 == IF filter = "unbound" THEN filtered_data
              ELSE [filtered_data EXCEPT ![h] = Broadcast("f", p, ndim)]
        pre == Hook(pre_filter, h, raw, ts)
        f2 == IF pre_filter = None THEN f1
              ELSE [f1 EXCEPT ![h] = Broadcast("f", pre, ndim)]
        post == Hook(post_filter, h, f2, ts)
    IN  IF filter = "unbound"
        THEN [err |-> "AttributeError", filtered_data |-> f1, data_series |-> "raw"]
        ELSE IF pre_filter # None /\ ~Fits(pre, ndim)
        THEN [err |-> "ValueError", filtered_data |-> f1, data_series |-> "raw"]
        ELSE IF post_filter = None
        THEN [err |-> "ok", filtered_data |-> f2, data_series |-> "filtered"]
        ELSE IF ~Fits(post, ndim)
        THEN [err |-> "ValueError", filtered_data |-> f2, data_series |-> "filtered"]
        ELSE [err |-> "ok", data_series |-> "filtered",
              filtered_data |-> [f2 EXCEPT ![h] = Broadcast("f", post, ndim)]]

\* Mutant: the post-filter hook runs while the raw array is still the active
\* view.
__filter_data_post_on_raw(h, a, raw, ew, dn, ts) ==
    LET pre == Hook(pre_filter, h, raw, ts)
        f1 == IF pre_filter = None THEN filtered_data
              ELSE [filtered_data EXCEPT ![h] = Broadcast("f", pre, ndim)]
        p == Primary(h, a, raw, ew, dn)
        f2 == [f1 EXCEPT ![h] = Broadcast("f", p, ndim)]
        post == Hook(post_filter, h, raw, ts)
    IN  IF pre_filter # None /\ ~Fits(pre, ndim)
        THEN [err |-> "ValueError", filtered_data |-> filtered_data,
              data_series |-> "raw"]
        ELSE IF filter = "unbound"
        THEN [err |-> "AttributeError", filtered_data |-> f1, data_series |-> "raw"]
        ELSE IF post_filter = None
        THEN [err |-> "ok", filtered_data |-> f2, data_series |-> "filtered"]
        ELSE IF ~Fits(post, ndim)
        THEN [err |-> "ValueError", filtered_data |-> f2, data_series |-> "filtered"]
        ELSE [err |-> "ok", data_series |-> "filtered",
              filtered_data |-> [f2 EXCEPT ![h] = Broadcast("f", post, ndim)]]

\* DataTimeSeries.__filter_data, run after the raw write with head h, added a,
\* raw array raw and timestamp ring ts: the pre-filter hook on the raw view, self.__filter()
\* on the raw view, the post-filter hook on the filtered view, each written
\* to the filtered slot h; the first statement that raises ends it.
__filter_data(h, a, raw, ew, dn, ts) ==
    LET pre == Hook(pre_filter, h, raw, ts)
        f1 == IF pre_filter = None THEN filtered_data
              ELSE [filtered_data EXCEPT ![h] = Broadcast("f", pre, ndim)]
        p == Primary(h, a, raw, ew, dn)
        f2 == [f1 EXCEPT ![h] = Broadcast("f", p, ndim)]
        post == Hook(post_filter, h, f2, ts)
    IN  IF pre_filter # None /\ ~Fits(pre, ndim)
        THEN [err |-> "ValueError", filtered_data |-> filtered_data,
              data_series |-> "raw"]
        ELSE IF filter = "unbound"
        THEN [err |-> "AttributeError", filtered_data |-> f1, data_series |-> "raw"]
        ELSE IF post_filter = None
        THEN [err |-> "ok", filtered_data |-> f2, data_series |-> "filtered"]
        ELSE IF ~Fits(post, ndim)
        THEN [err |-> "ValueError", filtered_data |-> f2, data_series |-> "filtered"]
        ELSE [err |-> "ok", data_series |-> "filtered",
              filtered_data |-> [f2 EXCEPT ![h] = Broadcast("f", post, ndim)]]

\* What the last add() call was given, the clock reading it took (None when
\* a timestamp was supplied) and how it ended.
AddCall(data, kw, now, err) ==
    [op |-> "add", data |-> data, kw |-> kw, err |-> err,
     now |-> IF kw.timestamp = None THEN Some(now) ELSE None]

\* Mutant: __filter_data writes its results through to the raw slot at head
\* as well.
Commit_filter_writes_raw(data, kw, now, te, td, ts, when) ==
    LET base == DataSequence_add(
                    [head |-> head, added |-> added, dtype |-> "f",
                     data_series |-> raw_data],
                    nsamples, ndim, data)
        w == IF when = "before" THEN __compute_exponential_weights(added)
             ELSE IF when = "after" /\ base.err = "ok"
             THEN __compute_exponential_weights(base.seq.added)
             ELSE [weight |-> weight, exp_weights |-> exp_weights, denom |-> denom]
        f == __filter_data(base.seq.head, base.seq.added, base.seq.data_series,
                           w.exp_weights, w.denom,
                           DataSequence_add(timestamp, nsamples, 1, <<ts>>).seq)
    IN  /\ head' = base.seq.head
        /\ added' = base.seq.added
        /\ raw_data' = IF base.err = "ok" /\ auto_filter
                       THEN [base.seq.data_series EXCEPT
                                ![base.seq.head] = f.filtered_data[base.seq.head]]
                       ELSE base.seq.data_series
        /\ weight' = w.weight
        /\ exp_weights' = w.exp_weights
        /\ denom' = w.denom
        /\ nadds' = nadds + 1
        /\ overridden' = (overridden \/ kw # NoKw)
        /\ first_timestamp' = IF base.err = "ok" /\ first_timestamp = None
                              THEN Some(ts) ELSE first_timestamp
        /\ IF base.err = "ok"
           THEN /\ time_elapsed' = DataSequence_add(time_elapsed, nsamples, 1, <<te>>).seq
                /\ tdelta' = DataSequence_add(tdelta, nsamples, 1, <<td>>).seq
                /\ timestamp' = DataSequence_add(timestamp, nsamples, 1, <<ts>>).seq
                /\ hist' = Take(<<data>> \o hist, nsamples)
                /\ IF auto_filter
                   THEN /\ filtered_data' = f.filtered_data
                        /\ data_series' = f.data_series
                        /\ last_call' = AddCall(data, kw, now, f.err)
                   ELSE /\ data_series' = "raw"
                        /\ last_call' = AddCall(data, kw, now, "ok")
                        /\ UNCHANGED filtered_data
           ELSE /\ data_series' = "raw"
                /\ last_call' = AddCall(data, kw, now, base.err)
                /\ UNCHANGED <<rings, filtered_data, hist>>
        /\ UNCHANGED config

\* The part of __initial_time_add and __add after self.data_series =
\* self.__raw_data: super().add(data), which may raise, then the adds to the
\* time rings with the values te, td, ts, then __filter_data on an
\* auto-filtered series.  __compute_exponential_weights runs before all of
\* it (when = "before", in __initialize_series_add), after the time rings
\* (when = "after", in __initial_time_add) or not at all ("never", __add).
Commit(data, kw, now, te, td, ts, when) ==
    LET base == DataSequence_add(
                    [head |-> head, added |-> added, dtype |-> "f",
                     data_series |-> raw_data],
                    nsamples, ndim, data)
        w == IF when = "before" THEN __compute_exponential_weights(added)
             ELSE IF when = "after" /\ base.err = "ok"
             THEN __compute_exponential_weights(base.seq.added)
             ELSE [weight |-> weight, exp_weights |-> exp_weights, denom |-> denom]
        f == __filter_data(base.seq.head, base.seq.added, base.seq.data_series,
                           w.exp_weights, w.denom,
                           DataSequence_add(timestamp, nsamples, 1, <<ts>>).seq)
    IN  /\ head' = base.seq.head
        /\ added' = base.seq.added
        /\ raw_data' = base.seq.data_series
        /\ weight' = w.weight
        /\ exp_weights' = w.exp_weights
        /\ denom' = w.denom
        /\ nadds' = nadds + 1
        /\ overridden' = (overridden \/ kw # NoKw)
        /\ first_timestamp' = IF base.err = "ok" /\ first_timestamp = None
                              THEN Some(ts) ELSE first_timestamp
        /\ IF base.err = "ok"
           THEN /\ time_elapsed' = DataSequence_add(time_elapsed, nsamples, 1, <<te>>).seq
                /\ tdelta' = DataSequence_add(tdelta, nsamples, 1, <<td>>).seq
                /\ timestamp' = DataSequence_add(timestamp, nsamples, 1, <<ts>>).seq
                /\ hist' = Take(<<data>> \o hist, nsamples)
                /\ IF auto_filter
                   THEN /\ filtered_data' = f.filtered_data
                        /\ data_series' = f.data_series
                        /\ last_call' = AddCall(data, kw, now, f.err)
                   ELSE /\ data_series' = "raw"
                        /\ last_call' = AddCall(data, kw, now, "ok")
                        /\ UNCHANGED filtered_data
           ELSE /\ data_series' = "raw"
                /\ last_call' = AddCall(data, kw, now, base.err)
                /\ UNCHANGED <<rings, filtered_data, hist>>
        /\ UNCHANGED config

\* Mutant: the first add() stores tdelta in time_elapsed and time_elapsed in
\* tdelta.
__initial_time_add_swapped(data, kw, now) ==
    /\ init_err = "ok"
    /\ add = "__initial_time_add"
    /\ add' = "__initialize_series_add"
    /\ Commit(data, kw, now,
              IF kw.tdelta = None THEN 0 ELSE kw.tdelta[1],
              IF kw.time_elapsed = None THEN 0 ELSE kw.time_elapsed[1],
              IF kw.timestamp = None THEN now ELSE kw.timestamp[1],
              "after")

\* DataTimeSeries.__initial_time_add(data, timestamp, tdelta, time_elapsed);
\* kw holds the three optional arguments, now is what time.time() returns.
__initial_time_add(data, kw, now) ==
    /\ init_err = "ok"
    /\ add = "__initial_time_add"
    /\ add' = "__initialize_series_add"
    /\ Commit(data, kw, now,
              IF kw.time_elapsed = None THEN 0 ELSE kw.time_elapsed[1],
              IF kw.tdelta = None THEN 0 ELSE kw.tdelta[1],
              IF kw.timestamp = None THEN now ELSE kw.timestamp[1],
              "after")

\* The timestamp, tdelta and time_elapsed that __add computes from its
\* arguments kw and the clock reading now (lines 357-362).
__add_times(kw, now) ==
    LET ts == IF kw.timestamp = None THEN now ELSE kw.timestamp[1]
        td == IF kw.tdelta = None
              THEN ts - RingVal(timestamp, 0) ELSE kw.tdelta[1]
        te == IF kw.time_elapsed = None
              THEN RingVal(time_elapsed, 0) + td ELSE kw.time_elapsed[1]
    IN  [timestamp |-> ts, tdelta |-> td, time_elapsed |-> te]

\* Mutant: the default tdelta is previous timestamp minus new timestamp.
add_body_negated_delta(data, kw, now, when) ==
    LET ts == IF kw.timestamp = None THEN now ELSE kw.timestamp[1]
        td == IF kw.tdelta = None
              THEN RingVal(timestamp, 0) - ts ELSE kw.tdelta[1]
        te == IF kw.time_elapsed = None
              THEN RingVal(time_elapsed, 0) + td ELSE kw.time_elapsed[1]
    IN  Commit(data, kw, now, te, td, ts, when)

\* Mutant: the default time_elapsed adds the previous sample's stored tdelta
\* instead of the new one.
add_body_previous_delta(data, kw, now, when) ==
    LET ts == IF kw.timestamp = None THEN now ELSE kw.timestamp[1]
        td == IF kw.tdelta = None
              THEN ts - RingVal(timestamp, 0) ELSE kw.tdelta[1]
        te == IF kw.time_elapsed = None
              THEN RingVal(time_elapsed, 0) + RingVal(tdelta, 0)
              ELSE kw.time_elapsed[1]
    IN  Commit(data, kw, now, te, td, ts, when)

\* The body of DataTimeSeries.__add(data, timestamp, tdelta, time_elapsed);
\* when tells whether the caller computed the EWMA weights first.
add_body(data, kw, now, when) ==
    LET t == __add_times(kw, now)
    IN  Commit(data, kw, now, t.time_elapsed, t.tdelta, t.timestamp, when)

\* DataTimeSeries.__initialize_series_add: rebinds add once the ring is full,
\* computes the EWMA weights, then runs __add.
__initialize_series_add(data, kw, now) ==
    /\ add = "__initialize_series_add"
    /\ add' = IF added >= nsamples THEN "__add" ELSE add
    /\ add_body(data, kw, now, "before")

\* DataTimeSeries.__add as the bound add.
__add(data, kw, now) ==
    /\ add = "__add"
    /\ add' = add
    /\ add_body(data, kw, now, "never")

\* DataSequence.__setitem__, integer key: series[key] = value.
__setitem__(key, value) ==
    LET slot == NpSlot(nsamples, _get_real_index(head, nsamples, key))
        err == IF slot = -1 THEN "IndexError"
               ELSE IF ~Fits(value, ndim) THEN "ValueError" ELSE "ok"
        new == Broadcast("f", value, ndim)
    IN  /\ last_call' = [op |-> "setitem", key |-> key, value |-> value, err |-> err]
        /\ raw_data' = IF err = "ok" /\ data_series = "raw"
                       THEN [raw_data EXCEPT ![slot] = new] ELSE raw_data
        /\ filtered_data' = IF err = "ok" /\ data_series = "filtered"
                            THEN [filtered_data EXCEPT ![slot] = new]
                            ELSE filtered_data
        /\ UNCHANGED <<config, head, added, data_series, rings, add, weights,
                       hist, nadds, overridden, first_timestamp>>

\* ----------------------------------------------------------- input sets
Vals == 0..MaxVal
Samples(d) == [1..d -> Vals]
\* Data of one, two or three equal components.
AnyData == {[k \in 1..len |-> v] : len \in {1, 2, 3}, v \in Vals}

\* Integer times: Big is the smallest positive integer float32 cannot hold.
Big == 2^F32Bits + 1
Clock == {0, Big}
Kws == [timestamp : {None, Some(Big + 2)},
        tdelta : {None, Some(Big)},
        time_elapsed : {None, Some(7)}]
Keys == (0 - MaxN)..(3 * MaxN)

\* add() with samples of ndim components, no time arguments, a clock at 0.
Next ==
    \/ \E data \in Samples(ndim) :
          nadds < MaxAdds /\ __initial_time_add(data, NoKw, 0)
    \/ \E data \in Samples(ndim) :
          nadds < MaxAdds /\ __initialize_series_add(data, NoKw, 0)
    \/ \E data \in Samples(ndim) :
          nadds < MaxAdds /\ __add(data, NoKw, 0)

Spec == Init /\ [][Next]_vars

\* add() with data of any number of components.
NextFault ==
    \/ \E data \in AnyData :
          nadds < MaxAdds /\ __initial_time_add(data, NoKw, 0)
    \/ \E data \in AnyData :
          nadds < MaxAdds /\ __initialize_series_add(data, NoKw, 0)
    \/ \E data \in AnyData :
          nadds < MaxAdds /\ __add(data, NoKw, 0)

SpecFault == Init /\ [][NextFault]_vars

ZeroSample == [k \in 1..ndim |-> 0]

\* add() of the zero sample, and series[key] = value for every key and value.
NextIndex ==
    \/ nadds < MaxAdds /\ __initial_time_add(ZeroSample, NoKw, 0)
    \/ nadds < MaxAdds /\ __initialize_series_add(ZeroSample, NoKw, 0)
    \/ nadds < MaxAdds /\ __add(ZeroSample, NoKw, 0)
    \/ \E key \in Keys : \E value \in Samples(ndim) : __setitem__(key, value)

SpecIndex == Init /\ [][NextIndex]_vars

\* add() of the zero sample to an unfiltered scalar series, with every choice
\* of time arguments and clock.
InitTime == \E n \in 1..MaxN : __init__(n, 1, FALSE, "None", None, None, None)

NextTime ==
    \/ \E kw \in Kws, now \in Clock :
          nadds < MaxTimedAdds /\ __initial_time_add(ZeroSample, kw, now)
    \/ \E kw \in Kws, now \in Clock :
          nadds < MaxTimedAdds /\ __initialize_series_add(ZeroSample, kw, now)
    \/ \E kw \in Kws, now \in Clock :
          nadds < MaxTimedAdds /\ __add(ZeroSample, kw, now)

SpecTime == InitTime /\ [][NextTime]_vars

\* Series that are not filtered, zero samples, no time argument, a clock that
\* never goes back: each reading is the previous one, the next number, or
\* Big later.
ClockAfter(t) == {t, t + 1, t + Big}

NextClock ==
    \/ \E now \in ClockAfter(0) :
          nadds < MaxTimedAdds /\ __initial_time_add(ZeroSample, NoKw, now)
    \/ \E now \in ClockAfter(RingVal(timestamp, 0)) :
          nadds < MaxTimedAdds /\ __initialize_series_add(ZeroSample, NoKw, now)
    \/ \E now \in ClockAfter(RingVal(timestamp, 0)) :
          nadds < MaxTimedAdds /\ __add(ZeroSample, NoKw, now)

SpecClock == InitTime /\ [][NextClock]_vars

\* The filter_alg values, hooks and ewma_weight values a series is built
\* with: "median" is a name no branch of __init__ matches.
Algs == {"ewma", "sma", "lowpass", "None", "median"}
Hooks == {None, Some("twice"), Some("wider")}
Weights == {None, Some(<<1, 2>>)}

\* Sample components for the filters: multiples of a unit that every
\* normalizer met on up to MaxN samples divides (1..MaxN for the SMA,
\* 2^k - 1 for the EWMA of weight 1/2), so that the quotients are exact.
RECURSIVE Grain(_)
Grain(k) == IF k = 0 THEN 1 ELSE k * (2^k - 1) * Grain(k - 1)
Unit == Grain(MaxN)
FilterSamples(d) == {[k \in 1..d |-> Unit * v] : v \in Vals}

\* add() with samples of ndim equal components on a series built with every
\* choice of auto_filter, filter_alg, hooks and ewma_weight.
InitFilter ==
    \E n \in 1..MaxN, d \in Dims, af \in BOOLEAN, alg \in Algs,
       pre \in Hooks, post \in Hooks, w \in Weights :
        __init__(n, d, af, alg, pre, post, w)

NextFilter ==
    \/ \E data \in FilterSamples(ndim) :
          nadds < MaxAdds /\ __initial_time_add(data, NoKw, 0)
    \/ \E data \in FilterSamples(ndim) :
          nadds < MaxAdds /\ __initialize_series_add(data, NoKw, 0)
    \/ \E data \in FilterSamples(ndim) :
          nadds < MaxAdds /\ __add(data, NoKw, 0)

SpecFilter == InitFilter /\ [][NextFilter]_vars

\* Auto-filtered and plain series with hooks that show what they are given
\* or return nothing, with the pass filter, the EWMA of weight 1/2 or no
\* filter bound; the clock advances by one at every add().
ObservingHooks == {None, Some("twice"), Some("stamp"), Some("nothing")}

InitHook ==
    \E n \in 1..MaxN, d \in Dims, af \in BOOLEAN, alg \in {"ewma", "None", "median"},
       pre \in ObservingHooks, post \in ObservingHooks :
        __init__(n, d, af, alg, pre, post, Some(<<1, 2>>))

NextHook ==
    \/ \E data \in FilterSamples(ndim) :
          nadds < MaxTimedAdds /\ __initial_time_add(data, NoKw, nadds + 1)
    \/ \E data \in FilterSamples(ndim) :
          nadds < MaxTimedAdds /\ __initialize_series_add(data, NoKw, nadds + 1)
    \/ \E data \in FilterSamples(ndim) :
          nadds < MaxTimedAdds /\ __add(data, NoKw, nadds + 1)

SpecHook == InitHook /\ [][NextHook]_vars

\* ------------------------------------------------------------------ claims
ZeroElement == [k \in 1..ndim |-> 0]

\* C1: on a series that is not auto-filtered, once at least nsamples add()
\* calls have been made, series[j] is the (j+1)-th most recently added sample
\* for every 0 <= j < nsamples: series[0] the newest, series[nsamples-1] the
\* oldest one retained.
C1_RelativeRead ==
    (~auto_filter /\ nadds >= nsamples) =>
        \A j \in 0..(nsamples - 1) :
            Get(j) = [err |-> "ok", val |-> hist[j + 1]]

C1_Witness ==
    /\ ~auto_filter
    /\ nsamples = 3
    /\ nadds > nsamples
    /\ hist[1] # hist[2]
    /\ hist[1] # hist[3]
    /\ Get(0).val = hist[1]
    /\ Get(2).val = hist[3]

\* C2: added stays in 0..nsamples and head in 0..nsamples-1, for the series
\* and for its three time rings; added never decreases, and an add() call
\* increases it by exactly one while it is below nsamples and leaves it at
\* nsamples afterwards.
CountersInRange ==
    /\ added \in 0..nsamples
    /\ head \in 0..(nsamples - 1)
    /\ \A s \in {tdelta, time_elapsed, timestamp} :
          s.added \in 0..nsamples /\ s.head \in 0..(nsamples - 1)

C2_Counters ==
    /\ CountersInRange
    /\ [][/\ CountersInRange'
          /\ added' >= added
          /\ timestamp.added' >= timestamp.added
          /\ nadds' = nadds + 1 =>
                added' = IF added < nsamples THEN added + 1 ELSE nsamples]_vars

C2_Witness ==
    /\ nsamples >= 2
    /\ added = nsamples
    /\ nadds > nsamples
    /\ last_call.err = "ValueError"

\* C3: an add() call writes one slot of the raw storage, the slot
\* (head + 1) mod nsamples, with the sample; every other slot keeps its
\* value, the storage keeps its nsamples slots, and on a full ring the slot
\* written is the one that held the oldest retained sample.
C3_OneSlotWritten ==
    [][nadds' = nadds + 1 =>
          LET slot == (head + 1) % nsamples
          IN  /\ DOMAIN raw_data' = 0..(nsamples - 1)
              /\ head' = slot
              /\ raw_data'[slot] = last_call'.data
              /\ \A i \in (0..(nsamples - 1)) \ {slot} : raw_data'[i] = raw_data[i]
              /\ added = nsamples => raw_data[slot] = hist[nsamples]]_vars

C3_Witness ==
    /\ nsamples = 3
    /\ nadds > nsamples
    /\ last_call.op = "add"
    /\ raw_data[head] = last_call.data
    /\ raw_data[head] # raw_data[(head + 1) % nsamples]
    /\ raw_data[head] # raw_data[(head + 2) % nsamples]

\* C4: an add() call given data whose number of components differs from ndim
\* fails, and leaves head, added, the raw storage, the three time rings, the
\* filtered storage and the binding of add as they were.
C4_FailedAddChangesNothing ==
    [][(nadds' = nadds + 1 /\ Len(last_call'.data) # ndim) =>
          /\ last_call'.err # "ok"
          /\ UNCHANGED <<head, added, raw_data, rings, filtered_data, add>>]_vars

\* C5: series[i] and series[i] = v with i >= nsamples raise IndexError,
\* wherever head is.
C5_IndexOutOfRange ==
    /\ \A i \in nsamples..(3 * MaxN) : Get(i).err = "IndexError"
    /\ (last_call.op = "setitem" /\ last_call.key >= nsamples) =>
          last_call.err = "IndexError"

\* C6: series[a:b] with 0 <= a < b <= nsamples has b - a elements and its
\* k-th element is series[a + k], wherever head is; series[:] is the
\* nsamples slots from the newest on.
C6_RangeRead ==
    /\ \A a \in 0..(nsamples - 1) : \A b \in (a + 1)..nsamples :
          LET r == GetRange(Some(a), Some(b))
          IN  /\ r.err = "ok"
              /\ Len(r.val) = b - a
              /\ \A k \in 0..(b - a - 1) : r.val[k + 1] = Get(a + k).val
    /\ GetRange(None, None) =
          [err |-> "ok", val |-> [k \in 1..nsamples |-> Get(k - 1).val]]

C6_Witness ==
    /\ nsamples = 3
    /\ head = 1
    /\ added = nsamples
    /\ GetRange(Some(0), Some(3)).err = "ok"
    /\ GetRange(Some(0), Some(3)).val = <<Active[1], Active[0], Active[2]>>
    /\ Active[0] # Active[2]
    /\ Active[1] # Active[0]

\* C7: while added < nsamples and only add() has written the ring,
\* series[i] is the zero element, without error, for added <= i < nsamples,
\* and the sample added i calls before the last one for i < added.
C7_UnwrittenSlotsAreZero ==
    added < nsamples =>
        /\ \A i \in added..(nsamples - 1) :
              Get(i) = [err |-> "ok", val |-> ZeroElement]
        /\ \A i \in 0..(added - 1) :
              Get(i) = [err |-> "ok", val |-> hist[i + 1]]

C7_Witness ==
    /\ nsamples = 3
    /\ added = 2
    /\ Get(0).val = hist[1]
    /\ Get(1).val = hist[2]
    /\ hist[1] # ZeroElement
    /\ hist[2] # ZeroElement
    /\ Get(2) = [err |-> "ok", val |-> ZeroElement]

\* The timestamp an add() call was given, or else the clock reading it took.
CallTs(c) == IF c.kw.timestamp = None THEN c.now[1] ELSE c.kw.timestamp[1]

FirstAddDone == nadds = 1 /\ last_call.err = "ok"

\* C8 as stated: the first add() stores tdelta 0, time_elapsed 0 and the
\* clock reading at index 0, or for each of the three the value supplied, and
\* add is no longer bound to __initial_time_add.
C8_FirstAddExact ==
    FirstAddDone =>
        /\ RingVal(tdelta, 0) =
              (IF last_call.kw.tdelta = None THEN 0 ELSE last_call.kw.tdelta[1])
        /\ RingVal(time_elapsed, 0) =
              (IF last_call.kw.time_elapsed = None THEN 0
               ELSE last_call.kw.time_elapsed[1])
        /\ RingVal(timestamp, 0) = CallTs(last_call)
        /\ add # "__initial_time_add"

\* C8 amended: as C8, except that a supplied tdelta is stored rounded to
\* float32, the dtype of the tdelta ring.
C8_FirstAdd ==
    FirstAddDone =>
        /\ RingVal(tdelta, 0) =
              (IF last_call.kw.tdelta = None THEN 0
               ELSE AsFloat32(last_call.kw.tdelta[1]))
        /\ RingVal(time_elapsed, 0) =
              (IF last_call.kw.time_elapsed = None THEN 0
               ELSE last_call.kw.time_elapsed[1])
        /\ RingVal(timestamp, 0) = CallTs(last_call)
        /\ add # "__initial_time_add"

C8_Witness ==
    /\ FirstAddDone
    /\ last_call.kw.tdelta = None
    /\ last_call.kw.timestamp = None
    /\ last_call.kw.time_elapsed = Some(7)
    /\ RingVal(time_elapsed, 0) = 7
    /\ RingVal(tdelta, 0) = 0
    /\ RingVal(timestamp, 0) = Big
    /\ add = "__initialize_series_add"

\* C9 as stated: when no add() was given a time argument, for adjacent
\* retained samples i and i+1, tdelta[i] = timestamp[i] - timestamp[i+1] and
\* time_elapsed[i] = time_elapsed[i+1] + tdelta[i].
C9_AdjacentExact ==
    ~overridden =>
        \A i \in 0..(timestamp.added - 2) :
            /\ RingVal(tdelta, i) = RingVal(timestamp, i) - RingVal(timestamp, i + 1)
            /\ RingVal(time_elapsed, i) =
                  RingVal(time_elapsed, i + 1) + RingVal(tdelta, i)

\* C9 amended: tdelta[i] is timestamp[i] - timestamp[i+1] rounded to float32,
\* and time_elapsed[i] = time_elapsed[i+1] + (timestamp[i] - timestamp[i+1]),
\* the unrounded difference.
C9_Adjacent ==
    ~overridden =>
        \A i \in 0..(timestamp.added - 2) :
            /\ RingVal(tdelta, i) =
                  AsFloat32(RingVal(timestamp, i) - RingVal(timestamp, i + 1))
            /\ RingVal(time_elapsed, i) =
                  RingVal(time_elapsed, i + 1)
                  + (RingVal(timestamp, i) - RingVal(timestamp, i + 1))

C9_Witness ==
    /\ ~overridden
    /\ nsamples = 2
    /\ nadds = 3
    /\ timestamp.head = 1
    /\ RingVal(timestamp, 0) = Big
    /\ RingVal(timestamp, 1) = 0
    /\ RingVal(tdelta, 0) = Big - 1
    /\ RingVal(time_elapsed, 0) = RingVal(time_elapsed, 1) + Big

\* An add() call that succeeded and was given all three time arguments.
FullKw(c) ==
    /\ c.op = "add"
    /\ c.err = "ok"
    /\ c.kw.timestamp # None
    /\ c.kw.tdelta # None
    /\ c.kw.time_elapsed # None

\* The step after such a call is an add() given no tdelta and no time_elapsed.
DerivingAdd ==
    /\ FullKw(last_call)
    /\ nadds' = nadds + 1
    /\ last_call'.err = "ok"
    /\ last_call'.kw.tdelta = None
    /\ last_call'.kw.time_elapsed = None

\* C10 as stated: an add() given timestamp T, tdelta d and time_elapsed e
\* stores exactly T, d, e at index 0, and the next add(), with timestamp T'
\* and no tdelta or time_elapsed, stores tdelta T' - T and time_elapsed
\* e + (T' - T).
C10_ExplicitExact ==
    [][/\ FullKw(last_call') =>
             /\ RingVal(timestamp', 0) = last_call'.kw.timestamp[1]
             /\ RingVal(tdelta', 0) = last_call'.kw.tdelta[1]
             /\ RingVal(time_elapsed', 0) = last_call'.kw.time_elapsed[1]
       /\ DerivingAdd =>
             /\ RingVal(tdelta', 0) =
                   CallTs(last_call') - last_call.kw.timestamp[1]
             /\ RingVal(time_elapsed', 0) =
                   last_call.kw.time_elapsed[1]
                   + (CallTs(last_call') - last_call.kw.timestamp[1])]_vars

\* C10 amended: T and e are stored exactly and d rounded to float32; the
\* next add() stores tdelta T' - T rounded to float32 and time_elapsed
\* e + (T' - T).
C10_Explicit ==
    [][/\ FullKw(last_call') =>
             /\ RingVal(timestamp', 0) = last_call'.kw.timestamp[1]
             /\ RingVal(tdelta', 0) = AsFloat32(last_call'.kw.tdelta[1])
             /\ RingVal(time_elapsed', 0) = last_call'.kw.time_elapsed[1]
       /\ DerivingAdd =>
             /\ RingVal(tdelta', 0) =
                   AsFloat32(CallTs(last_call') - last_call.kw.timestamp[1])
             /\ RingVal(time_elapsed', 0) =
                   last_call.kw.time_elapsed[1]
                   + (CallTs(last_call') - last_call.kw.timestamp[1])]_vars

C10_Witness ==
    /\ nsamples = 2
    /\ nadds = 3
    /\ last_call.kw = [timestamp |-> None, tdelta |-> None, time_elapsed |-> None]
    /\ RingVal(timestamp, 1) = Big + 2
    /\ RingVal(tdelta, 1) = AsFloat32(Big)
    /\ RingVal(time_elapsed, 1) = 7
    /\ RingVal(timestamp, 0) = 0
    /\ RingVal(tdelta, 0) = AsFloat32(0 - (Big + 2))
    /\ RingVal(time_elapsed, 0) = 7 - (Big + 2)

\* A step that is a successful add() other than the first, given exactly the
\* time argument f.
OnlyOverride(f) ==
    /\ nadds >= 1
    /\ nadds' = nadds + 1
    /\ last_call'.err = "ok"
    /\ last_call'.kw[f] # None
    /\ \A g \in {"timestamp", "tdelta", "time_elapsed"} \ {f} :
          last_call'.kw[g] = None

C12_HookFailureCommitsNothing ==
    [][(/\ nadds' = nadds + 1
        /\ auto_filter
        /\ filter # "unbound"
        /\ Len(last_call'.data) = ndim
        /\ pre_filter = Some("wider") \/ post_filter = Some("wider")) =>
          /\ last_call'.err # "ok"
          /\ UNCHANGED <<head, added, raw_data, rings, filtered_data,
                         data_series>>]_vars

\* The filter_alg values __init__ has a branch for.
Supported == {"ewma", "sma", "lowpass", "None"}

\* C13: __init__ with a filter_alg that is none of the supported kinds
\* raises, so that no series with an unrecognized filter exists and no add()
\* is ever made on one.
C13_UnknownFilterRejected ==
    filter_alg \notin Supported => (init_err # "ok" /\ nadds = 0)

\* The filter_alg values the class docstring lists as accepted.
Documented == {"ewma", "sma", "None"}

\* The result of the filter that filter_alg names, over the raw samples.
Selected ==
    IF filter_alg = "ewma"
    THEN ewma(head, added, raw_data, exp_weights, denom).val
    ELSE IF filter_alg = "sma" THEN sma(head, added, raw_data)
    ELSE raw_data[head]

\* C14: __init__ with auto_filter=True and filter_alg 'ewma', 'sma' or None
\* succeeds, and after each add() of such a series (no hooks bound) the
\* filtered slot at head holds the result of the filter named.
C14_DocumentedFiltersAccepted ==
    (auto_filter /\ filter_alg \in Documented) =>
        /\ init_err = "ok"
        /\ (/\ last_call.op = "add"
            /\ last_call.err = "ok"
            /\ pre_filter = None
            /\ post_filter = None) => filtered_data[head] = Selected

\* The k-th newest raw sample.
RawSample(k) == __getitem__(head, raw_data, nsamples, k).val

\* The powers 1, w, w^2, ... of the fraction w, one per slot.
Powers(w) == [k \in 0..(nsamples - 1) |-> RatPow(w, k)]

\* C15: on a series built with an ewma_weight w, after every add() the weight
\* array holds w^k for k < added, the normalizer is the sum of these `added`
\* weights, and ewma() is the sum over k < added of w^k times the k-th newest
\* raw sample, divided by the normalizer.
C15_EwmaWeights ==
    (ewma_weight # None /\ last_call.op = "add" /\ last_call.err = "ok") =>
        LET w == Powers(ewma_weight[1])
        IN  /\ \A k \in 0..(added - 1) : exp_weights[k] = w[k]
            /\ denom = RatSum(w, added)
            /\ ewma(head, added, Active, exp_weights, denom) =
                  [err |-> "ok",
                   val |-> [c \in 1..ndim |->
                             Quotient(RatSum([k \in 0..(added - 1) |->
                                                RatMul(w[k], <<RawSample(k)[c], 1>>)],
                                             added),
                                      RatSum(w, added))]]

\* The weight 1 - 2/(a + 1).
AutoWeight(a) == Rat(a - 1, a + 1)

\* C16: on a series built without ewma_weight, every add() made while
\* added < nsamples sets the weight to 1 - 2/(added + 1), for added as it is
\* at that add() (before or after it counts the sample), and the weight
\* differs from the one the add() before left.
C16_AutoWeightRecomputed ==
    [][(ewma_weight = None /\ nadds' = nadds + 1 /\ added < nsamples) =>
          /\ weight' \in {Some(AutoWeight(added)), Some(AutoWeight(added'))}
          /\ nadds >= 1 => weight' # weight]_vars

\* C17: once an add() has left added = nsamples, no later add() changes the
\* weight, the weight array or the normalizer.
C17_WeightsFrozen ==
    [][(/\ last_call.op = "add"
        /\ added = nsamples
        /\ nadds' = nadds + 1) => UNCHANGED <<weight, exp_weights, denom>>]_vars

\* C18: sma() is the sum of the `added` newest raw samples divided by added,
\* on a series that is auto-filtered as on one that is not.
C18_SmaOverRaw ==
    (last_call.op = "add" /\ last_call.err = "ok") =>
        sma(head, added, Active) =
            [c \in 1..ndim |->
               Quotient(<<SumTo([j \in 1..added |-> RawSample(j - 1)[c]], added), 1>>,
                        <<added, 1>>)]

\* C19: an add() that succeeds on an auto-filtered series writes the sample
\* to the raw slot at head and leaves in the filtered slot at head the
\* post-filter hook's result (the hook doubles the slot it finds) when one is
\* bound, else the result of the built-in filter over the raw samples,
\* whether or not a pre-filter hook wrote the slot before; the filtered
\* array is the active view afterwards.
C19_FilterOrder ==
    [][(nadds' = nadds + 1 /\ auto_filter /\ last_call'.err = "ok") =>
          LET p == IF filter = "ewma"
                   THEN ewma(head', added', raw_data', exp_weights', denom').val
                   ELSE raw_data'[head']
          IN  /\ raw_data'[head'] = last_call'.data
              /\ filtered_data'[head'] =
                    IF post_filter = None THEN p
                    ELSE [c \in 1..ndim |-> 2 * p[c]]
              /\ data_series' = "filtered"]_vars

C19_Witness ==
    /\ auto_filter
    /\ filter = "ewma"
    /\ ewma_weight # None
    /\ pre_filter = Some("twice")
    /\ post_filter = None
    /\ nsamples = 2
    /\ nadds = 3
    /\ last_call.err = "ok"
    /\ RawSample(0) = [c \in 1..ndim |-> 0]
    /\ RawSample(1) = [c \in 1..ndim |-> Unit]
    /\ filtered_data[head] = [c \in 1..ndim |-> Unit \div 3]

\* C20: on an auto-filtered series with the pass filter and no hooks, after
\* any number of add() calls every filtered slot equals the raw slot, the
\* slot at head included.
C20_PassthroughCopiesRaw ==
    (/\ auto_filter
     /\ filter = "__pass_filter"
     /\ pre_filter = None
     /\ post_filter = None) =>
        /\ filtered_data[head] = raw_data[head]
        /\ \A i \in 0..(nsamples - 1) : filtered_data[i] = raw_data[i]

C20_Witness ==
    /\ auto_filter
    /\ filter = "__pass_filter"
    /\ nsamples = 3
    /\ nadds > nsamples
    /\ last_call.err = "ok"
    /\ filtered_data[head] = last_call.data
    /\ filtered_data[head] # ZeroElement
    /\ filtered_data[(head + 1) % nsamples] # filtered_data[head]
    /\ filtered_data = raw_data

\* C22: whenever at least one sample has been added, series[-1] returns,
\* without error, the oldest sample that was added and is still retained.
C22_NegativeIndex ==
    (added >= 1 /\ Len(hist) = added) =>
        Get(-1) = [err |-> "ok", val |-> hist[added]]

\* C25: in every state reached by add() calls, failing ones included, the
\* tdelta, time_elapsed and timestamp rings have the head and the added of
\* the sample ring.
C25_LockStep ==
    \A s \in {tdelta, time_elapsed, timestamp} :
        s.head = head /\ s.added = added

\* C23: on an auto-filtered series, whatever built-in filter and hooks are
\* bound, after any sequence of add() calls the raw slot of each retained
\* sample holds the sample that was passed to add(), and an add() changes no
\* raw slot but the one at head: the filter and the hooks write only to the
\* filtered array.
C23_RawUntouched ==
    /\ [](auto_filter =>
            \A j \in 0..(Len(hist) - 1) : RawSample(j) = hist[j + 1])
    /\ [][(auto_filter /\ nadds' = nadds + 1) =>
             raw_data' = [raw_data EXCEPT ![head'] = last_call'.data]]_vars

C23_Witness ==
    /\ auto_filter
    /\ filter = "ewma"
    /\ ewma_weight # None
    /\ post_filter = Some("twice")
    /\ nsamples = 2
    /\ nadds = 3
    /\ last_call.err = "ok"
    /\ hist = <<[c \in 1..ndim |-> 0], [c \in 1..ndim |-> Unit]>>
    /\ RawSample(0) = hist[1]
    /\ RawSample(1) = hist[2]
    /\ filtered_data[head] = [c \in 1..ndim |-> 2 * (Unit \div 3)]

\* Whether the fraction x is less than the fraction y.
RatLess(x, y) == x[1] * y[2] < y[1] * x[2]

\* C24: on a series built with an ewma_weight strictly between 0 and 1,
\* after every add() the weights ewma() uses are strictly decreasing over
\* the valid samples and all positive: w[0] > w[1] > ... > w[added-1] > 0.
C24_WeightsDecreasing ==
    (/\ ewma_weight # None
     /\ RatLess(<<0, 1>>, ewma_weight[1])
     /\ RatLess(ewma_weight[1], <<1, 1>>)
     /\ last_call.op = "add") =>
        /\ \A k \in 0..(added - 2) : RatLess(exp_weights[k + 1], exp_weights[k])
        /\ RatLess(<<0, 1>>, exp_weights[added - 1])

\* The phase a single entry point would choose from added alone.
Phase(a) ==
    IF a = 0 THEN "INITIAL" ELSE IF a < nsamples THEN "WARMUP" ELSE "STEADY"

\* C26: every add() behaves as a single entry point branching on added would:
\* a call entered with 0 < added < nsamples (WARMUP) recomputes the weights
\* for the samples the ring holds, a call entered with added = nsamples
\* (STEADY) leaves the weights alone, in both the filtered slot is the
\* outcome of the filters with these weights, and the phase never goes back.
C26_PhaseByAdded ==
    [][(nadds' = nadds + 1) =>
          LET ref == IF Phase(added) = "STEADY"
                     THEN [weight |-> weight, exp_weights |-> exp_weights,
                           denom |-> denom]
                     ELSE __compute_exponential_weights(added)
          IN  /\ Phase(added) # "INITIAL" =>
                    /\ <<weight', exp_weights', denom'>> =
                          <<ref.weight, ref.exp_weights, ref.denom>>
                    /\ (auto_filter /\ filter # "unbound") =>
                          filtered_data' =
                              __filter_data(head', added', raw_data',
                                            ref.exp_weights, ref.denom,
                                            timestamp').filtered_data
              /\ Phase(added) = "STEADY" => Phase(added') = "STEADY"
              /\ Phase(added) = "WARMUP" => Phase(added') # "INITIAL"]_vars

\* The value the built-in filter leaves in the filtered slot at head in the
\* step to the next state.
PrimaryNext == Primary(head', added', raw_data', exp_weights', denom')

\* C21: when a bound pre-filter or post-filter hook returns nothing, add()
\* succeeds and leaves in the filtered slot at head the value that it
\* leaves when this hook is not bound: the built-in filter's result, or
\* the result of the other hook when that is a post-filter hook.
C21_SilentHook ==
    [][(/\ nadds' = nadds + 1
        /\ auto_filter
        /\ filter # "unbound"
        /\ Some("nothing") \in {pre_filter, post_filter}) =>
          /\ last_call'.err = "ok"
          /\ filtered_data'[head'] =
                IF post_filter = Some("twice")
                THEN [c \in 1..ndim |-> 2 * PrimaryNext[c]]
                ELSE IF post_filter = Some("stamp")
                THEN [c \in 1..ndim |-> RingVal(timestamp', 0)]
                ELSE PrimaryNext]_vars

\* C27: in an add() on an auto-filtered series the pre-filter hook and the
\* built-in filter see the raw view, whose index 0 is the sample just
\* inserted and whose timestamp[0] is the time of this add(); the
\* post-filter hook sees the filtered view, whose index 0 is the built-in
\* filter's result; after every successful add() the filtered array is the
\* active view.  On a series that is not auto-filtered the raw array is the
\* active view in every state.
C27_ViewSwitching ==
    /\ [](~auto_filter => data_series = "raw")
    /\ [][(nadds' = nadds + 1 /\ auto_filter) =>
             LET sample == last_call'.data
                 now == last_call'.now[1]
                 slot == filtered_data'[head']
             IN  /\ (filter = "unbound" /\ pre_filter = Some("twice")) =>
                       slot = [c \in 1..ndim |-> 2 * sample[c]]
                 /\ (filter = "unbound" /\ pre_filter = Some("stamp")) =>
                       slot = [c \in 1..ndim |-> now]
                 /\ filter = "__pass_filter" => PrimaryNext = sample
                 /\ (last_call'.err = "ok" /\ post_filter = None) =>
                       slot = PrimaryNext
                 /\ (last_call'.err = "ok" /\ post_filter = Some("twice")) =>
                       slot = [c \in 1..ndim |-> 2 * PrimaryNext[c]]
                 /\ (last_call'.err = "ok" /\ post_filter = Some("stamp")) =>
                       slot = [c \in 1..ndim |-> now]
                 /\ last_call'.err = "ok" => data_series' = "filtered"]_vars

C27_Witness ==
    /\ auto_filter
    /\ filter = "ewma"
    /\ pre_filter = Some("stamp")
    /\ post_filter = Some("twice")
    /\ nsamples = 2
    /\ nadds = 3
    /\ last_call.err = "ok"
    /\ RawSample(0) = [c \in 1..ndim |-> Unit]
    /\ RawSample(1) = [c \in 1..ndim |-> 0]
    /\ RingVal(timestamp, 0) = 3
    /\ filtered_data[head] = [c \in 1..ndim |-> 2 * (2 * (Unit \div 3))]
    /\ data_series = "filtered"

\* C28: when no add() was given a time argument and the clock never goes
\* back, after every add() time_elapsed[0] is the newest timestamp minus the
\* timestamp of the first sample ever added, also when the ring no longer
\* holds that sample, and every stored tdelta and time_elapsed is >= 0.
C28_ElapsedSinceFirst ==
    (~overridden /\ timestamp.added >= 1) =>
        /\ RingVal(time_elapsed, 0) = RingVal(timestamp, 0) - first_timestamp[1]
        /\ \A i \in 0..(timestamp.added - 1) :
              RingVal(tdelta, i) >= 0 /\ RingVal(time_elapsed, i) >= 0

C28_Witness ==
    /\ ~overridden
    /\ nsamples = 1
    /\ nadds = 3
    /\ first_timestamp = Some(1)
    /\ RingVal(timestamp, 0) = Big + 2
    /\ RingVal(tdelta, 0) = 1
    /\ RingVal(time_elapsed, 0) = Big + 1
====
